---------------------------- MODULE Spec2Model ----------------------------
(***************************************************************************)
(* mailtrash: a disposable-mail relay.  One Node.js process receives mail  *)
(* over SMTP (smtp-server + mailparser), keeps each message for 15 minutes *)
(* in an in-memory Map, notifies one Telegram chat, and serves the stored  *)
(* message at GET /view/:id (Hono).                                        *)
(*                                                                         *)
(* The repository holds two entry scripts with the same structure:         *)
(*   src/index.js          plain HTTP, ports from the environment          *)
(*   src/unnamed/part_000  direct HTTPS (certificates read at startup)     *)
(* The variable `variant` says which of the two the process runs; the      *)
(* definitions that differ between them carry the suffix _index or         *)
(* _part000.                                                               *)
(*                                                                         *)
(* JavaScript strings are modelled as sequences of one-character strings.  *)
(* The fixed pieces of a template literal are kept as single elements of   *)
(* more than one character, so text that comes from a message can always   *)
(* be told from template text.  The emoji of the templates are left out.   *)
(***************************************************************************)
EXTENDS Integers, Sequences, FiniteSets, TLC

VARIABLES
    variant,      \* which entry script runs: "index" or "part000"
    now,          \* the clock, in milliseconds since the process started
    ticks,        \* how many times the clock has advanced (bounded)
    mailStorage,  \* the Map: a function from the stored ids to snapshots
    timers,       \* pending setTimeout callbacks: records [id, due, tx]
    issued,       \* ids uuidv4() has returned so far
    pc,           \* per SMTP transaction: where its onData invocation stands
    parsedIn,     \* per transaction: what simpleParser handed to the callback
    txId,         \* per transaction: the mailId it generated, or NoId
    acks,         \* per transaction: the calls of callback(), in order
    sent,         \* per transaction: its calls of bot.telegram.sendMessage
    sendResult,   \* per transaction: how its sendMessage promise settled
    putLog,       \* history: tx -> [at, mail], what its mailStorage.set inserted and when
    fired,        \* history: ids whose expiry callback has run
    resp,         \* the last response of GET /view/:id
    phase,        \* the process: "loading", "running" or "exited"
    exitCode,     \* <<status>> once the process has exited, NoExit before
    sslOptions,   \* part_000: the certificate and key read at startup, or undefined
    started,      \* the components started: "bot", "web", "smtp"
    escaped,      \* how many exceptions have escaped a handler so far
    xin,          \* extraction check: the text handed to smartExtract
    xout          \* extraction check: what smartExtract returned

procVars == <<phase, exitCode, sslOptions, started, escaped>>

vars == <<variant, now, ticks, mailStorage, timers, issued, pc, parsedIn, txId,
          acks, sent, sendResult, putLog, fired, resp, procVars, xin, xout>>

sysVars == <<variant, now, ticks, mailStorage, timers, issued, pc, parsedIn,
             txId, acks, sent, sendResult, putLog, fired, resp, procVars>>

-----------------------------------------------------------------------------
(* Bounds of the model. *)

\* SMTP transactions (onData invocations) in one run.
MaxMsgs == 2
\* Times the clock advances in one run.
MaxTicks == 2
\* Segments concatenated into one input text of the extraction check.
MaxSegs == 3
\* Exceptions that escape a handler in one run.
MaxEscapes == 1

-----------------------------------------------------------------------------
(* JavaScript values. *)

\* The values undefined, null and false, kept apart from every string.
undefined == <<"undefined">>
null == <<"null">>
false == <<"false">>

\* ToBoolean: undefined, null, false and the empty string are falsy.
Falsy(v) == v \in {undefined, null, false, <<>>}

\* a || b
Or(a, b) == IF Falsy(a) THEN b ELSE a

\* Template-literal interpolation `${v}` of a string or of undefined/null/false.
toStr(v) ==
    IF v = undefined THEN <<"u","n","d","e","f","i","n","e","d">>
    ELSE IF v = null THEN <<"n","u","l","l">>
    ELSE IF v = false THEN <<"f","a","l","s","e">>
    ELSE v

Lowercase ==
    <<"a","b","c","d","e","f","g","h","i","j","k","l","m",
      "n","o","p","q","r","s","t","u","v","w","x","y","z">>
Uppercase ==
    <<"A","B","C","D","E","F","G","H","I","J","K","L","M",
      "N","O","P","Q","R","S","T","U","V","W","X","Y","Z">>
Digits == {"0","1","2","3","4","5","6","7","8","9"}

Range(s) == {s[i] : i \in DOMAIN s}

\* Case folding of the /i flag.
toLower(c) ==
    IF c \in Range(Uppercase)
    THEN Lowercase[CHOOSE i \in DOMAIN Uppercase : Uppercase[i] = c]
    ELSE c

\* \d
IsDigit(c) == c \in Digits
\* \w : [A-Za-z0-9_]
IsWordChar(c) == c \in Digits \cup Range(Lowercase) \cup Range(Uppercase) \cup {"_"}
\* \s (the white space of the model's alphabet)
IsWhitespace(c) == c \in {" ", "\t", "\n", "\r", "\f"}
\* what `.` does not match
IsLineTerminator(c) == c \in {"\n", "\r"}

\* text.substring(from - 1, to), 1-based and inclusive here.
Slice(text, from, to) == [i \in 1..(to - from + 1) |-> text[from + i - 1]]

\* Whether the literal lit stands in text at position i (1-based).
LitAt(text, i, lit) ==
    /\ i >= 1
    /\ i + Len(lit) - 1 <= Len(text)
    /\ \A k \in 1..Len(lit) : text[i + k - 1] = lit[k]

\* The same under the /i flag.
LitAtNoCase(text, i, lit) ==
    /\ i >= 1
    /\ i + Len(lit) - 1 <= Len(text)
    /\ \A k \in 1..Len(lit) : toLower(text[i + k - 1]) = toLower(lit[k])

-----------------------------------------------------------------------------
(* escapeHTML *)

\* One character through .replace(/&/g,"&amp;").replace(/</g,"&lt;")
\* .replace(/>/g,"&gt;"): the & pass runs first, so it never sees the & of
\* an entity the later passes produce.
replaceAmp(c) == IF c = "&" THEN <<"&","a","m","p",";">> ELSE <<c>>
replaceLt(c) == IF c = "<" THEN <<"&","l","t",";">> ELSE <<c>>
replaceGt(c) == IF c = ">" THEN <<"&","g","t",";">> ELSE <<c>>

RECURSIVE replaceAll(_, _)
\* str.replace(/x/g, ...) for a one-character pattern: pass is 1 (&), 2 (<), 3 (>).
replaceAll(str, pass) ==
    IF str = <<>> THEN <<>>
    ELSE (CASE pass = 1 -> replaceAmp(Head(str))
            [] pass = 2 -> replaceLt(Head(str))
            [] OTHER    -> replaceGt(Head(str)))
         \o replaceAll(Tail(str), pass)

escapeHTML_ampLast(str) ==
    IF Falsy(str) THEN <<>>
    ELSE replaceAll(replaceAll(replaceAll(str, 2), 3), 1)

escapeHTML(str) ==
    IF Falsy(str) THEN <<>>
    ELSE replaceAll(replaceAll(replaceAll(str, 1), 2), 3)

-----------------------------------------------------------------------------
(* smartExtract *)

\* \b at the gap before position p (between text[p-1] and text[p]).
WordBoundary(text, p) ==
    LET before == p - 1 >= 1 /\ p - 1 <= Len(text) /\ IsWordChar(text[p - 1])
        after  == p >= 1 /\ p <= Len(text) /\ IsWordChar(text[p])
    IN  before # after

\* \d{n} at position i.
DigitsAt(text, i, n) ==
    /\ i + n - 1 <= Len(text)
    /\ \A k \in 0..(n - 1) : IsDigit(text[i + k])

\* The lengths n for which \b\d{n}\b matches at position i, n in 4..8.
codeLengthsAt_noBoundary(text, i) ==
    {n \in 4..8 : DigitsAt(text, i, n)}

codeLengthsAt(text, i) ==
    {n \in 4..8 :
        /\ WordBoundary(text, i)
        /\ DigitsAt(text, i, n)
        /\ WordBoundary(text, i + n)}

Max(S) == CHOOSE x \in S : \A y \in S : y <= x
Min(S) == CHOOSE x \in S : \A y \in S : x <= y

\* text.match(/\b\d{4,8}\b/): the leftmost position with a match, the
\* quantifier greedy; null when there is none.  The result is codeMatch[0].
codeMatch(text) ==
    LET starts == {i \in 1..Len(text) : codeLengthsAt(text, i) # {}}
    IN  IF starts = {} THEN null
        ELSE LET i == Min(starts)
                 n == Max(codeLengthsAt(text, i))
             IN  Slice(text, i, i + n - 1)

\* Where the prefix https?:\/\/ ends when it matches at position i, else 0.
schemeEnd(text, i) ==
    IF LitAt(text, i, <<"h","t","t","p","s",":","/","/">>) THEN i + 7
    ELSE IF LitAt(text, i, <<"h","t","t","p",":","/","/">>) THEN i + 6
    ELSE 0

RECURSIVE nonSpaceRun(_, _)
\* [^\s]* from position p: the last position it takes (p - 1 when it takes none).
nonSpaceRun(text, p) ==
    IF p <= Len(text) /\ ~IsWhitespace(text[p])
    THEN nonSpaceRun(text, p + 1)
    ELSE p - 1

\* Where /https?:\/\/[^\s$.?#].[^\s]*/ ends when it matches at position i,
\* else 0: after the scheme one character that is no white space and none of
\* $ . ? #, then any one character but a line terminator, then [^\s]*.
urlEnd(text, i) ==
    LET e == schemeEnd(text, i)
    IN  IF e = 0 THEN 0
        ELSE IF /\ e + 2 <= Len(text)
                /\ ~IsWhitespace(text[e + 1])
                /\ text[e + 1] \notin {"$", ".", "?", "#"}
                /\ ~IsLineTerminator(text[e + 2])
             THEN nonSpaceRun(text, e + 3)
             ELSE 0

RECURSIVE matchAllFrom(_, _)
\* text.match(urlRegex) with the g flag, scanning from position pos: every
\* match in document order, each search resuming after the previous match.
matchAllFrom(text, pos) ==
    IF pos > Len(text) THEN <<>>
    ELSE LET e == urlEnd(text, pos)
         IN  IF e = 0 THEN matchAllFrom(text, pos + 1)
             ELSE <<Slice(text, pos, e)>> \o matchAllFrom(text, e + 1)

\* const links = text.match(urlRegex) || []
links(text) == matchAllFrom(text, 1)

Keywords ==
    { <<"c","o","n","f","i","r","m">>,
      <<"v","e","r","i","f","y">>,
      <<"l","o","g","i","n">>,
      <<"s","i","g","n","i","n">>,
      <<"p","a","s","s","w","o","r","d">> }

\* /confirm|verify|login|signin|password/i.test(l)
keywordTest(l) ==
    \E kw \in Keywords : \E i \in 1..Len(l) : LitAtNoCase(l, i, kw)

RECURSIVE find(_)
\* ls.find(l => keywordTest(l)): the first element that passes, else undefined.
find(ls) ==
    IF ls = <<>> THEN undefined
    ELSE IF keywordTest(Head(ls)) THEN Head(ls)
    ELSE find(Tail(ls))

\* links[0]
first(ls) == IF ls = <<>> THEN undefined ELSE ls[1]

smartExtract_firstLink(text) ==
    IF Falsy(text) THEN [code |-> null, link |-> null]
    ELSE [code |-> codeMatch(text), link |-> first(links(text))]

smartExtract(text) ==
    IF Falsy(text) THEN [code |-> null, link |-> null]
    ELSE [code |-> codeMatch(text),
          link |-> Or(find(links(text)), first(links(text)))]

-----------------------------------------------------------------------------
(* The extraction check: smartExtract applied to texts built from segments. *)

\* Pieces of mail text: two URLs with a keyword (one in mixed case), one
\* without, a bare scheme, digit runs that concatenate to runs of 4 to 14
\* digits, one of them behind a colon, a letter, an underscore, a full stop
\* and white space.
Segments ==
    { <<"h","t","t","p",":","/","/","a","b">>,
      <<"h","t","t","p","s",":","/","/","x","/","L","o","g","i","n">>,
      <<"h","t","t","p",":","/","/","v","e","r","i","f","y">>,
      <<" ">>,
      <<"1","2","3","4">>,
      <<"5","6","7","8","9">>,
      <<"x">>,
      <<"_">>,
      <<":","5","6","7","8">>,
      <<"h","t","t","p",":","/","/">>,
      <<".">>,
      <<"\n">> }

RECURSIVE Concats(_)
\* Every concatenation of at most n segments.
Concats(n) ==
    IF n = 0 THEN {<<>>}
    ELSE LET P == Concats(n - 1)
         IN  P \cup {p \o sg : p \in P, sg \in Segments}

Texts == Concats(MaxSegs) \cup {undefined}

\* xout before smartExtract has run.
NotRun == [code |-> <<"not run">>, link |-> <<"not run">>]

-----------------------------------------------------------------------------
(* Configuration and inputs of the running process. *)

\* process.env.DOMAIN and process.env.MY_CHAT_ID
Domain == "mail.example"
MY_CHAT_ID == "chat-of-the-operator"

\* The SMTP transactions of a run.
Txs == 1..MaxMsgs

\* The values uuidv4() can return in a run, one per transaction at most.
UuidPool == {"uuid-" \o ToString(i) : i \in Txs}

\* What a GET /view/:id can ask for: any such id, or one never generated.
ViewIds == UuidPool \cup {"no-such-id"}

\* What simpleParser can hand over: parsed.from?.text, parsed.to?.text,
\* parsed.subject, parsed.html (false when the mail has no HTML part) and
\* parsed.text (undefined when it has no plain-text part).
MailCode ==
    [from |-> <<"A","&","B">>, to |-> <<"m","e">>,
     subject |-> <<"<","i",">">>, html |-> false,
     text |-> <<"<","1","2","3","4",">","&","h","t","t","p",":","/","/","a","b">>]
MailHtml ==
    [from |-> undefined, to |-> undefined, subject |-> undefined,
     html |-> <<"<","p",">","h","i">>, text |-> undefined]

Mails == {MailCode, MailHtml}

\* How far the clock moves in one step: a millisecond, a quarter of an hour,
\* or a millisecond less than that.
TickSteps == {1, 15 * 60 * 1000 - 1, 15 * 60 * 1000}

-----------------------------------------------------------------------------
(* The mail store: const mailStorage = new Map() *)

\* mailStorage.get(id): the value, or undefined (defined |-> FALSE).
get(id) ==
    IF id \in DOMAIN mailStorage
    THEN [defined |-> TRUE, value |-> mailStorage[id]]
    ELSE [defined |-> FALSE]

\* mailStorage.set(id, mail)
set(id, mail) ==
    [k \in DOMAIN mailStorage \cup {id} |-> IF k = id THEN mail ELSE mailStorage[k]]

delete_noop(id) == mailStorage

delete_clear(id) == [k \in {} |-> k]

\* mailStorage.delete(id)
delete(id) == [k \in DOMAIN mailStorage \ {id} |-> mailStorage[k]]

\* The delay handed to setTimeout.
expiryDelay_seconds == 15 * 1000

expiryDelay == 15 * 60 * 1000

\* uuidv4(): an id this process has not generated before.
uuidv4_repeating == UuidPool

uuidv4 == UuidPool \ issued

-----------------------------------------------------------------------------
(* onData: what the simpleParser callback builds. *)

Inconnu == <<"I","n","c","o","n","n","u">>
Moi == <<"M","o","i">>
SansSujet == <<"(","S","a","n","s"," ","s","u","j","e","t",")">>

\* (parsed.text || "").substring(0, 100)
preview(text) ==
    LET t == Or(text, <<>>)
    IN  SubSeq(t, 1, IF Len(t) < 100 THEN Len(t) ELSE 100)

\* The object handed to mailStorage.set.
storedMail_index(parsed) ==
    [from |-> Or(parsed.from, Inconnu),
     to |-> Or(parsed.to, Moi),
     subject |-> Or(parsed.subject, SansSujet),
     html |-> parsed.html,
     text |-> parsed.text]

storedMail_part000(parsed) ==
    [from |-> Or(parsed.from, Inconnu),
     subject |-> Or(parsed.subject, SansSujet),
     html |-> parsed.html,
     text |-> parsed.text]

\* let msg = ... : the notification text.
msg_index(parsed, smartData) ==
    <<"<b>Nouveau Mail !</b>\n<b>De:</b> ">>
    \o escapeHTML(Or(parsed.from, Inconnu))
    \o <<"\n<b>Pour:</b> ">>
    \o escapeHTML(Or(parsed.to, Moi))
    \o <<"\n<b>Sujet:</b> ">>
    \o escapeHTML(Or(parsed.subject, SansSujet))
    \o (IF ~Falsy(smartData.code)
        THEN <<"\n\n<b>CODE DETECTE :</b>\n<code>">> \o smartData.code
             \o <<"</code>\n(Clique pour copier)\n\n">>
        ELSE <<"\n\n<i>">> \o escapeHTML(preview(parsed.text))
             \o <<"...</i>\n\n">>)

msg_part000(parsed, smartData) ==
    <<"<b>Nouveau mail recu !</b>\n\n<b>De :</b> ">>
    \o escapeHTML(parsed.from)
    \o <<"\n<b>Sujet :</b> ">>
    \o escapeHTML(parsed.subject)
    \o (IF ~Falsy(smartData.code)
        THEN <<"\n\n<b>CODE DETECTE :</b> <code>">> \o smartData.code
             \o <<"</code>\n\n">>
        ELSE <<"\n\n">>)

\* `https://${DOMAIN}/view/${mailId}`
viewUrl(mailId) == <<"https://", Domain, "/view/", mailId>>

\* The inline keyboard: one button per row.
buttons_index(mailId, smartData) ==
    <<  <<[type |-> "web_app", text |-> "Voir le mail complet",
           url |-> viewUrl(mailId)]>>  >>
    \o (IF ~Falsy(smartData.link)
        THEN <<  <<[type |-> "url", text |-> "Ouvrir le lien de confirmation",
                    url |-> smartData.link]>>  >>
        ELSE <<>>)

buttons_part000(mailId, smartData) ==
    <<  <<[type |-> "url", text |-> "Lire le mail complet",
           url |-> viewUrl(mailId)]>>  >>
    \o (IF ~Falsy(smartData.link)
        THEN <<  <<[type |-> "url", text |-> "Lien direct",
                    url |-> smartData.link]>>  >>
        ELSE <<>>)

storedMail(parsed) ==
    IF variant = "index" THEN storedMail_index(parsed) ELSE storedMail_part000(parsed)

\* The arguments of bot.telegram.sendMessage(MY_CHAT_ID, msg, {...}).
sendMessageCall_twoChats(parsed, mailId) ==
    LET smartData == smartExtract(parsed.text)
    IN  [chat_id |-> IF Falsy(parsed.to) THEN MY_CHAT_ID ELSE "chat-of-the-recipient",
         text |-> IF variant = "index" THEN msg_index(parsed, smartData)
                  ELSE msg_part000(parsed, smartData),
         parse_mode |-> "HTML",
         inline_keyboard |-> IF variant = "index" THEN buttons_index(mailId, smartData)
                             ELSE buttons_part000(mailId, smartData)]

sendMessageCall(parsed, mailId) ==
    LET smartData == smartExtract(parsed.text)
    IN  [chat_id |-> MY_CHAT_ID,
         text |-> IF variant = "index" THEN msg_index(parsed, smartData)
                  ELSE msg_part000(parsed, smartData),
         parse_mode |-> "HTML",
         inline_keyboard |-> IF variant = "index" THEN buttons_index(mailId, smartData)
                             ELSE buttons_part000(mailId, smartData)]

-----------------------------------------------------------------------------
(* GET /view/:id *)

notFound_index ==
    [status |-> 404, body |-> <<"<h1>Ce mail a expire ou n'existe pas.</h1>">>]

notFound_part000 ==
    [status |-> 404, body |-> <<"<b>Mail expire (limite de 15 minutes).</b>">>]

\* The page of a stored mail, src/index.js: sender, recipient and subject
\* escaped, then the HTML body as it is or the plain text inside <pre>.
page_index(mail) ==
    <<"<!DOCTYPE html><html><head>...</head><body><div class=\"header\"><div class=\"meta\">De: ">>
    \o escapeHTML(mail.from)
    \o <<"</div><div class=\"meta\">Pour: ">>
    \o escapeHTML(mail.to)
    \o <<"</div><div class=\"subject\">">>
    \o escapeHTML(mail.subject)
    \o <<"</div></div><div class=\"content\">">>
    \o (IF ~Falsy(mail.html) THEN mail.html
        ELSE <<"<pre>">> \o toStr(mail.text) \o <<"</pre>">>)
    \o <<"</div></body></html>">>

\* The page of a stored mail, src/unnamed/part_000.
page_part000(mail) ==
    <<"<html><head>...</head><body><div class=\"card\"><div class=\"meta\"><b>De :</b> ">>
    \o escapeHTML(mail.from)
    \o <<"</div><div class=\"meta\"><b>Sujet :</b> ">>
    \o escapeHTML(mail.subject)
    \o <<"</div><hr><div class=\"content\">">>
    \o (IF ~Falsy(mail.html) THEN mail.html
        ELSE <<"<pre>">> \o escapeHTML(mail.text) \o <<"</pre>">>)
    \o <<"</div></div></body></html>">>

\* The handler's answer: c.html(..., 404) or c.html(page).
view_always200(id) ==
    LET mail == get(id)
    IN  [status |-> 200,
         body |-> IF mail.defined THEN page_part000(mail.value) ELSE <<>>]

view(id) ==
    LET mail == get(id)
    IN  IF ~mail.defined
        THEN (IF variant = "index" THEN notFound_index ELSE notFound_part000)
        ELSE [status |-> 200,
              body |-> IF variant = "index" THEN page_index(mail.value)
                       ELSE page_part000(mail.value)]

-----------------------------------------------------------------------------
(* The process: module load, exit, exceptions that escape a handler. *)

\* No process.exit and no crash so far.
NoExit == <<>>

\* Everything the entry script starts: bot.launch(), serve(...), listen(...).
Components == {"bot", "web", "smtp"}

\* The key and the certificate readFileSync returned (src/unnamed/part_000).
Certificates == <<"privkey.pem", "fullchain.pem">>

\* Whether the process runs / runs with this component started.
Running == phase = "running"
Accepts(component) == Running /\ component \in started

\* process.on('uncaughtException', ...): only src/index.js installs one.
handlesUncaught == variant = "index"

-----------------------------------------------------------------------------
(* The state when the process starts to load the entry script. *)

NoId == "none"
NoResp == [id |-> NoId, status |-> 0, body |-> <<>>]

InitSystem ==
    /\ now = 0
    /\ ticks = 0
    /\ mailStorage = [k \in {} |-> k]
    /\ timers = {}
    /\ issued = {}
    /\ pc = [tx \in Txs |-> "idle"]
    /\ parsedIn = [tx \in Txs |-> [err |-> "pending"]]
    /\ txId = [tx \in Txs |-> NoId]
    /\ acks = [tx \in Txs |-> <<>>]
    /\ sent = [tx \in Txs |-> <<>>]
    /\ sendResult = [tx \in Txs |-> "pending"]
    /\ putLog = [k \in {} |-> k]
    /\ fired = {}
    /\ resp = NoResp
    /\ phase = "loading"
    /\ exitCode = NoExit
    /\ sslOptions = undefined
    /\ started = {}
    /\ escaped = 0

Init ==
    /\ variant \in {"index", "part000"}
    /\ InitSystem
    /\ xin = <<>>
    /\ xout = NotRun

-----------------------------------------------------------------------------
(* Startup: the entry script runs from its first line to its last. *)

StartupCertFailure_continues ==
    /\ phase = "loading"
    /\ variant = "part000"
    /\ phase' = "running"
    /\ started' = Components
    /\ UNCHANGED <<exitCode, sslOptions, escaped>>
    /\ UNCHANGED <<variant, now, ticks, mailStorage, timers, issued, pc, parsedIn,
                   txId, acks, sent, sendResult, putLog, fired, resp, xin, xout>>

\* src/unnamed/part_000: readFileSync throws on the key or the certificate;
\* catch (err) logs and calls process.exit(1).  Nothing below it runs.
StartupCertFailure ==
    /\ phase = "loading"
    /\ variant = "part000"
    /\ phase' = "exited"
    /\ exitCode' = <<1>>
    /\ UNCHANGED <<sslOptions, started, escaped>>
    /\ UNCHANGED <<variant, now, ticks, mailStorage, timers, issued, pc, parsedIn,
                   txId, acks, sent, sendResult, putLog, fired, resp, xin, xout>>

\* The script runs to its end: part_000 has read the key and the certificate;
\* bot.launch(), serve(...) and listen(...) start the three components.
Startup ==
    /\ phase = "loading"
    /\ sslOptions' = IF variant = "part000" THEN Certificates ELSE sslOptions
    /\ started' = Components
    /\ phase' = "running"
    /\ UNCHANGED <<exitCode, escaped>>
    /\ UNCHANGED <<variant, now, ticks, mailStorage, timers, issued, pc, parsedIn,
                   txId, acks, sent, sendResult, putLog, fired, resp, xin, xout>>

\* A promise a bot handler left floating rejects (ctx.reply fails): node
\* raises it as an uncaught exception.  With a handler for 'uncaughtException'
\* the handler logs it and the process goes on; without one node prints the
\* error and exits with status 1.
ReplyRejected ==
    /\ Accepts("bot")
    /\ escaped < MaxEscapes
    /\ escaped' = escaped + 1
    /\ IF handlesUncaught
       THEN UNCHANGED <<phase, exitCode>>
       ELSE phase' = "exited" /\ exitCode' = <<1>>
    /\ UNCHANGED <<sslOptions, started>>
    /\ UNCHANGED <<variant, now, ticks, mailStorage, timers, issued, pc, parsedIn,
                   txId, acks, sent, sendResult, putLog, fired, resp, xin, xout>>

-----------------------------------------------------------------------------
(* SMTP intake: onData(stream, session, callback) *)

\* The SMTP layer calls onData, which starts simpleParser on the stream.
DataStart(tx) ==
    /\ Accepts("smtp")
    /\ pc[tx] = "idle"
    /\ pc' = [pc EXCEPT ![tx] = "parsing"]
    /\ UNCHANGED <<procVars, variant, now, ticks, mailStorage, timers, issued, parsedIn,
                   txId, acks, sent, sendResult, putLog, fired, resp, xin, xout>>

ParseError_reportsError(tx) ==
    /\ Running
    /\ pc[tx] = "parsing"
    /\ parsedIn' = [parsedIn EXCEPT ![tx] = [err |-> "error"]]
    /\ acks' = [acks EXCEPT ![tx] = Append(@, "callback(err)")]
    /\ pc' = [pc EXCEPT ![tx] = "done"]
    /\ UNCHANGED <<procVars, variant, now, ticks, mailStorage, timers, issued, txId,
                   sent, sendResult, putLog, fired, resp, xin, xout>>

\* simpleParser calls back with an error: if (err) return callback();
ParseError(tx) ==
    /\ Running
    /\ pc[tx] = "parsing"
    /\ parsedIn' = [parsedIn EXCEPT ![tx] = [err |-> "error"]]
    /\ acks' = [acks EXCEPT ![tx] = Append(@, "callback()")]
    /\ pc' = [pc EXCEPT ![tx] = "done"]
    /\ UNCHANGED <<procVars, variant, now, ticks, mailStorage, timers, issued, txId,
                   sent, sendResult, putLog, fired, resp, xin, xout>>

ParseOk_requiresText(tx, parsed, mailId) ==
    /\ Running
    /\ pc[tx] = "parsing"
    /\ mailId \in uuidv4
    /\ parsedIn' = [parsedIn EXCEPT ![tx] = [err |-> "none", parsed |-> parsed]]
    /\ IF Falsy(parsed.text)
       THEN /\ acks' = [acks EXCEPT ![tx] = Append(@, "callback()")]
            /\ pc' = [pc EXCEPT ![tx] = "done"]
            /\ UNCHANGED <<issued, txId, mailStorage, putLog, timers, sent>>
       ELSE /\ issued' = issued \cup {mailId}
            /\ txId' = [txId EXCEPT ![tx] = mailId]
            /\ mailStorage' = set(mailId, storedMail(parsed))
            /\ putLog' = [k \in DOMAIN putLog \cup {tx} |->
                            IF k = tx THEN [at |-> now, mail |-> storedMail(parsed)]
                            ELSE putLog[k]]
            /\ timers' = timers \cup
                            {[id |-> mailId, due |-> now + expiryDelay, tx |-> tx]}
            /\ sent' = [sent EXCEPT ![tx] = Append(@, sendMessageCall(parsed, mailId))]
            /\ pc' = [pc EXCEPT ![tx] = "sending"]
            /\ UNCHANGED acks
    /\ UNCHANGED <<procVars, variant, now, ticks, sendResult, fired, resp, xin, xout>>

ParseOk_notifyFirst(tx, parsed, mailId) ==
    /\ Running
    /\ pc[tx] = "parsing"
    /\ mailId \in uuidv4
    /\ parsedIn' = [parsedIn EXCEPT ![tx] = [err |-> "none", parsed |-> parsed]]
    /\ issued' = issued \cup {mailId}
    /\ txId' = [txId EXCEPT ![tx] = mailId]
    /\ putLog' = [k \in DOMAIN putLog \cup {tx} |->
                    IF k = tx THEN [at |-> now, mail |-> storedMail(parsed)]
                    ELSE putLog[k]]
    /\ sent' = [sent EXCEPT ![tx] = Append(@, sendMessageCall(parsed, mailId))]
    /\ pc' = [pc EXCEPT ![tx] = "sending"]
    /\ UNCHANGED <<procVars, variant, now, ticks, mailStorage, timers, acks,
                   sendResult, fired, resp, xin, xout>>

\* simpleParser calls back with the parsed mail: the handler runs up to its
\* await: it stores the snapshot under a fresh id, schedules the removal,
\* builds the notification and calls sendMessage.
ParseOk(tx, parsed, mailId) ==
    /\ Running
    /\ pc[tx] = "parsing"
    /\ mailId \in uuidv4
    /\ parsedIn' = [parsedIn EXCEPT ![tx] = [err |-> "none", parsed |-> parsed]]
    /\ issued' = issued \cup {mailId}
    /\ txId' = [txId EXCEPT ![tx] = mailId]
    /\ mailStorage' = set(mailId, storedMail(parsed))
    /\ putLog' = [k \in DOMAIN putLog \cup {tx} |->
                    IF k = tx THEN [at |-> now, mail |-> storedMail(parsed)]
                    ELSE putLog[k]]
    /\ timers' = timers \cup {[id |-> mailId, due |-> now + expiryDelay, tx |-> tx]}
    /\ sent' = [sent EXCEPT ![tx] = Append(@, sendMessageCall(parsed, mailId))]
    /\ pc' = [pc EXCEPT ![tx] = "sending"]
    /\ UNCHANGED <<procVars, variant, now, ticks, acks, sendResult, fired, resp, xin, xout>>

\* The sendMessage promise resolves: the handler goes on to callback().
SendResolved(tx) ==
    /\ Running
    /\ pc[tx] = "sending"
    /\ sendResult' = [sendResult EXCEPT ![tx] = "resolved"]
    /\ acks' = [acks EXCEPT ![tx] = Append(@, "callback()")]
    /\ pc' = [pc EXCEPT ![tx] = "done"]
    /\ UNCHANGED <<procVars, variant, now, ticks, mailStorage, timers, issued, parsedIn,
                   txId, sent, putLog, fired, resp, xin, xout>>

SendRejected_dropsMail(tx) ==
    /\ Running
    /\ pc[tx] = "sending"
    /\ sendResult' = [sendResult EXCEPT ![tx] = "rejected"]
    /\ mailStorage' = delete(txId[tx])
    /\ acks' = [acks EXCEPT ![tx] = Append(@, "callback()")]
    /\ pc' = [pc EXCEPT ![tx] = "done"]
    /\ UNCHANGED <<procVars, variant, now, ticks, timers, issued, parsedIn,
                   txId, sent, putLog, fired, resp, xin, xout>>

SendRejected_returns(tx) ==
    /\ Running
    /\ pc[tx] = "sending"
    /\ sendResult' = [sendResult EXCEPT ![tx] = "rejected"]
    /\ pc' = [pc EXCEPT ![tx] = "done"]
    /\ UNCHANGED <<procVars, variant, now, ticks, mailStorage, timers, issued, parsedIn,
                   txId, acks, sent, putLog, fired, resp, xin, xout>>

\* The sendMessage promise rejects: catch (e) logs it, then callback().
SendRejected(tx) ==
    /\ Running
    /\ pc[tx] = "sending"
    /\ sendResult' = [sendResult EXCEPT ![tx] = "rejected"]
    /\ acks' = [acks EXCEPT ![tx] = Append(@, "callback()")]
    /\ pc' = [pc EXCEPT ![tx] = "done"]
    /\ UNCHANGED <<procVars, variant, now, ticks, mailStorage, timers, issued, parsedIn,
                   txId, sent, putLog, fired, resp, xin, xout>>

-----------------------------------------------------------------------------
(* Expiry, the web view and the clock. *)

Expire_immediately(t) ==
    /\ Running
    /\ t \in timers
    /\ mailStorage' = delete(t.id)
    /\ timers' = timers \ {t}
    /\ fired' = fired \cup {t.id}
    /\ UNCHANGED <<procVars, variant, now, ticks, issued, pc, parsedIn, txId, acks, sent,
                   sendResult, putLog, resp, xin, xout>>

\* A timer whose delay has passed runs its callback, at that moment or any
\* later one: () => mailStorage.delete(mailId)
Expire(t) ==
    /\ Running
    /\ t \in timers
    /\ now >= t.due
    /\ mailStorage' = delete(t.id)
    /\ timers' = timers \ {t}
    /\ fired' = fired \cup {t.id}
    /\ UNCHANGED <<procVars, variant, now, ticks, issued, pc, parsedIn, txId, acks, sent,
                   sendResult, putLog, resp, xin, xout>>

View_renewsOnRead(id) ==
    /\ Accepts("web")
    /\ LET r == view(id) IN resp' = [id |-> id, status |-> r.status, body |-> r.body]
    /\ timers' = {IF t.id = id THEN [t EXCEPT !.due = now + expiryDelay] ELSE t :
                    t \in timers}
    /\ UNCHANGED <<procVars, variant, now, ticks, mailStorage, issued, pc, parsedIn,
                   txId, acks, sent, sendResult, putLog, fired, xin, xout>>

\* app.get('/view/:id', ...)
View(id) ==
    /\ Accepts("web")
    /\ LET r == view(id) IN resp' = [id |-> id, status |-> r.status, body |-> r.body]
    /\ UNCHANGED <<procVars, variant, now, ticks, mailStorage, timers, issued, pc, parsedIn,
                   txId, acks, sent, sendResult, putLog, fired, xin, xout>>

\* Time passes.
Tick(d) ==
    /\ Running
    /\ ticks < MaxTicks
    /\ now' = now + d
    /\ ticks' = ticks + 1
    /\ UNCHANGED <<procVars, variant, mailStorage, timers, issued, pc, parsedIn, txId,
                   acks, sent, sendResult, putLog, fired, resp, xin, xout>>

Next ==
    \/ StartupCertFailure
    \/ Startup
    \/ ReplyRejected
    \/ \E tx \in Txs : DataStart(tx)
    \/ \E tx \in Txs : ParseError(tx)
    \/ \E tx \in Txs, parsed \in Mails, mailId \in UuidPool : ParseOk(tx, parsed, mailId)
    \/ \E tx \in Txs : SendResolved(tx)
    \/ \E tx \in Txs : SendRejected(tx)
    \/ \E t \in timers : Expire(t)
    \/ \E id \in ViewIds : View(id)
    \/ \E d \in TickSteps : Tick(d)

Spec == Init /\ [][Next]_vars

\* simpleParser calls its callback, with an error or with the parsed mail.
ParseSettles(tx) ==
    \/ ParseError(tx)
    \/ \E parsed \in Mails, mailId \in UuidPool : ParseOk(tx, parsed, mailId)

\* The promise of sendMessage settles, resolved or rejected.
SendSettles(tx) == SendResolved(tx) \/ SendRejected(tx)

\* The running process under the assumption that every parse and every
\* sendMessage call settles in the end.
FairSpec ==
    /\ Spec
    /\ \A tx \in Txs : WF_vars(ParseSettles(tx)) /\ WF_vars(SendSettles(tx))

-----------------------------------------------------------------------------
(* The extraction check: one call of smartExtract on one text. *)

InitExtract ==
    /\ variant = "index"
    /\ InitSystem
    /\ xin \in Texts
    /\ xout = NotRun

\* const smartData = smartExtract(parsed.text)
Extract ==
    /\ xout = NotRun
    /\ xout' = smartExtract(xin)
    /\ UNCHANGED <<sysVars, xin>>

NextExtract == Extract

SpecExtract == InitExtract /\ [][NextExtract]_vars

-----------------------------------------------------------------------------
(* What the claims speak of. *)

\* The time-to-live the specification states: 15 minutes, in milliseconds.
QuarterHour == 15 * 60 * 1000

\* The transactions whose mail was parsed and stored.
Stored == DOMAIN putLog

\* Whether the time-to-live of tx's entry has not yet elapsed / is over.
BeforeTtl(tx) == now - putLog[tx].at < QuarterHour
PastTtl(tx) == now - putLog[tx].at > QuarterHour

\* The page the running script renders for a snapshot.
PageOf(mail) == IF variant = "index" THEN page_index(mail) ELSE page_part000(mail)

\* A lookup through the web view finds exactly this snapshot / finds nothing.
Finds(id, mail) ==
    /\ get(id).defined
    /\ get(id).value = mail
    /\ view(id).status = 200
    /\ view(id).body = PageOf(mail)
FindsNothing(id) ==
    /\ ~get(id).defined
    /\ view(id).status = 404

\* The pending timers of an id.
TimersOf(id) == {t \in timers : t.id = id}

-----------------------------------------------------------------------------
(* C1 *)

\* C1, as claimed: a lookup of a stored message's id returns the snapshot at
\* every moment before 15 minutes have passed since its insertion, and
\* not-found at every moment after they have passed.
C1_FoundUntilTtlThenNotFound ==
    \A tx \in Stored :
        /\ BeforeTtl(tx) => Finds(txId[tx], putLog[tx].mail)
        /\ PastTtl(tx) => FindsNothing(txId[tx])

\* C1, amended: a lookup of a stored message's id returns the snapshot at every
\* moment until the expiry callback scheduled at its insertion has run, which
\* covers every moment before 15 minutes have passed since the insertion: the
\* callback is pending with a due time of exactly insertion + 15 minutes and
\* never runs before it.  At every moment after the callback has run, the
\* lookup returns not-found.
C1_FoundUntilExpiryRuns ==
    \A tx \in Stored :
        /\ BeforeTtl(tx) => txId[tx] \notin fired
        /\ txId[tx] \notin fired =>
              /\ Finds(txId[tx], putLog[tx].mail)
              /\ TimersOf(txId[tx]) =
                    {[id |-> txId[tx], due |-> putLog[tx].at + QuarterHour, tx |-> tx]}
        /\ txId[tx] \in fired =>
              /\ FindsNothing(txId[tx])
              /\ TimersOf(txId[tx]) = {}
              /\ ~BeforeTtl(tx)

\* An entry has expired and the view of its id answered 404 afterwards.
C1_Witness ==
    \E tx \in Stored :
        /\ txId[tx] \in fired
        /\ PastTtl(tx)
        /\ resp.id = txId[tx]
        /\ resp.status = 404

-----------------------------------------------------------------------------
(* C2 *)

\* C2: a transaction whose parse failed has added no entry to the store,
\* scheduled no timer and sent no notification, and has called the SMTP
\* callback once, without an error; every entry and every timer belongs to a
\* transaction whose parse succeeded.
C2_ParseFailureDropsMail ==
    /\ \A tx \in Txs :
          parsedIn[tx].err = "error" =>
              /\ pc[tx] = "done"
              /\ tx \notin Stored
              /\ txId[tx] = NoId
              /\ sent[tx] = <<>>
              /\ acks[tx] = <<"callback()">>
              /\ \A t \in timers : t.tx # tx
    /\ DOMAIN mailStorage \subseteq {txId[tx] : tx \in {u \in Txs : parsedIn[u].err = "none"}}
    /\ \A t \in timers : parsedIn[t.tx].err = "none"

\* One parse failed and was acknowledged while another mail is in the store.
C2_Witness ==
    \E tx \in Txs :
        /\ parsedIn[tx].err = "error"
        /\ acks[tx] = <<"callback()">>
        /\ DOMAIN mailStorage # {}

-----------------------------------------------------------------------------
(* C3 *)

\* C3: when sendMessage rejected, the handler made that one attempt only,
\* called the SMTP callback once without an error, and left the snapshot
\* alone: it stays retrievable, with its timer pending, until its expiry
\* callback runs, which is not before 15 minutes after the insertion.
C3_SendFailureSwallowed ==
    \A tx \in Txs :
        sendResult[tx] = "rejected" =>
            /\ pc[tx] = "done"
            /\ Len(sent[tx]) = 1
            /\ acks[tx] = <<"callback()">>
            /\ tx \in Stored
            /\ IF txId[tx] \in fired
               THEN ~BeforeTtl(tx)
               ELSE /\ Finds(txId[tx], putLog[tx].mail)
                    /\ \E t \in timers :
                          t.id = txId[tx] /\ t.due = putLog[tx].at + QuarterHour

\* The notification failed, time has passed and the mail is still shown.
C3_Witness ==
    \E tx \in Txs :
        /\ sendResult[tx] = "rejected"
        /\ now > putLog[tx].at
        /\ resp.id = txId[tx]
        /\ resp.status = 200
        /\ get(txId[tx]).defined

-----------------------------------------------------------------------------
(* C4 *)

\* C4: in every state and for every id, the view answers 200 with the page of
\* the stored message exactly when the id is a key of the store, and 404 with
\* the fixed page, the same for every id, otherwise; it answers nothing else.
C4_ViewStatus ==
    /\ \A id \in ViewIds :
          LET r == view(id)
              missing == view("no-such-id")
          IN  /\ r.status \in {200, 404}
              /\ r.status = 200 <=> id \in DOMAIN mailStorage
              /\ id \in DOMAIN mailStorage =>
                    /\ r.body = PageOf(mailStorage[id])
                    /\ r.body # missing.body
              /\ id \notin DOMAIN mailStorage =>
                    /\ r.status = 404
                    /\ Len(r.body) = 1
                    /\ r.body = missing.body
    /\ resp # NoResp => resp.status \in {200, 404}

\* An id that was never stored got the 404 page while the store held a mail.
C4_Witness ==
    /\ resp.id = "no-such-id"
    /\ resp.status = 404
    /\ DOMAIN mailStorage # {}

-----------------------------------------------------------------------------
(* C5 *)

\* C5: a step in which the view handler answers (the response changes) leaves
\* the store and the pending timers as they were.
C5_ViewReadOnly ==
    [][resp' # resp => UNCHANGED <<mailStorage, timers>>]_vars

\* A stored mail was viewed after time had passed, and its timer is still due
\* 15 minutes after the insertion.
C5_Witness ==
    \E tx \in Stored :
        /\ resp.id = txId[tx]
        /\ resp.status = 200
        /\ now > putLog[tx].at
        /\ TimersOf(txId[tx]) =
              {[id |-> txId[tx], due |-> putLog[tx].at + QuarterHour, tx |-> tx]}

-----------------------------------------------------------------------------
(* C6 *)

\* C6: while a transaction's entry is in the store, the stored snapshot and
\* the page the view renders from it are those of the snapshot the
\* transaction inserted, which is the one built from its own parsed mail.
C6_SnapshotImmutable ==
    \A tx \in Stored :
        /\ putLog[tx].mail = storedMail(parsedIn[tx].parsed)
        /\ txId[tx] \in DOMAIN mailStorage =>
              /\ mailStorage[txId[tx]] = putLog[tx].mail
              /\ view(txId[tx]).body = PageOf(putLog[tx].mail)

\* A mail is still stored and was viewed after another mail came in, was
\* notified and expired.
C6_Witness ==
    \E tx \in Stored, other \in Stored :
        /\ tx # other
        /\ putLog[tx].mail # putLog[other].mail
        /\ txId[other] \in fired
        /\ pc[other] = "done"
        /\ txId[tx] \in DOMAIN mailStorage
        /\ resp.id = txId[tx]
        /\ resp.status = 200

-----------------------------------------------------------------------------
(* C7 *)

\* The buttons of a sendMessage call, row by row.
Buttons(call) ==
    {call.inline_keyboard[r][c] :
        r \in DOMAIN call.inline_keyboard, c \in {1}}

\* C7: a transaction whose mail was parsed has made exactly one sendMessage
\* call, to MY_CHAT_ID; its keyboard has one button per row, exactly one of
\* them with the view link of the id the mail was stored under, and one more,
\* with the extracted link, exactly when the plain text holds a link.  A
\* transaction not parsed, or whose parse failed, has made none.
C7_OneNotification ==
    \A tx \in Txs :
        IF parsedIn[tx].err = "none"
        THEN /\ Len(sent[tx]) = 1
             /\ LET call == sent[tx][1]
                    text == parsedIn[tx].parsed.text
                    found == IF Falsy(text) THEN <<>> ELSE links(text)
                IN  /\ call.chat_id = MY_CHAT_ID
                    /\ \A r \in DOMAIN call.inline_keyboard :
                          Len(call.inline_keyboard[r]) = 1
                    /\ Cardinality({b \in Buttons(call) : b.url = viewUrl(txId[tx])}) = 1
                    /\ txId[tx] \in issued
                    /\ Len(call.inline_keyboard) = (IF found = <<>> THEN 1 ELSE 2)
                    /\ found # <<>> =>
                          \E b \in Buttons(call) :
                              /\ b.type = "url"
                              /\ b.url \in Range(found)
        ELSE sent[tx] = <<>>

\* Two mails were notified, one with a detected link and one without.
C7_Witness ==
    \E tx \in Txs, other \in Txs :
        /\ parsedIn[tx].err = "none"
        /\ parsedIn[other].err = "none"
        /\ Len(sent[tx][1].inline_keyboard) = 2
        /\ Len(sent[other][1].inline_keyboard) = 1

-----------------------------------------------------------------------------
(* C8 *)

\* The text smartExtract scans: nothing when the body is empty or absent.
Scanned == IF Falsy(xin) THEN <<>> ELSE xin

\* The whole string in lower case.
LowerAll(l) == [i \in DOMAIN l |-> toLower(l[i])]

\* Whether l contains one of the five words, in any mix of cases.
ContainsKeyword(l) ==
    \E kw \in { <<"c","o","n","f","i","r","m">>, <<"v","e","r","i","f","y">>,
                <<"l","o","g","i","n">>, <<"s","i","g","n","i","n">>,
                <<"p","a","s","s","w","o","r","d">> } :
        \E i \in 1..Len(l) :
            /\ i + Len(kw) - 1 <= Len(l)
            /\ SubSeq(LowerAll(l), i, i + Len(kw) - 1) = kw

\* C8: the link smartExtract returns is the first URL of the text, in
\* document order, that contains one of confirm, verify, login, signin,
\* password in any mix of cases, whenever there is such a URL and whatever
\* URLs come before it; otherwise the first URL; and it is absent when the
\* text holds no URL.
C8_LinkChoice ==
    xout # NotRun =>
        LET urls == links(Scanned)
            keyed == {k \in DOMAIN urls : ContainsKeyword(urls[k])}
        IN  IF keyed # {} THEN xout.link = urls[Min(keyed)]
            ELSE IF urls # <<>> THEN xout.link = urls[1]
            ELSE Falsy(xout.link)

\* A URL with a keyword was chosen over a URL without one that precedes it.
C8_Witness ==
    /\ xout # NotRun
    /\ Len(links(Scanned)) >= 2
    /\ ~ContainsKeyword(links(Scanned)[1])
    /\ ContainsKeyword(links(Scanned)[2])
    /\ xout.link = links(Scanned)[2]

-----------------------------------------------------------------------------
(* C9 *)

\* The runs of 4 to 8 digits of text, as <<start, length>>, that have no
\* digit on either side.
DigitRuns(text) ==
    {<<i, n>> \in (1..Len(text)) \X (4..8) :
        /\ i + n - 1 <= Len(text)
        /\ \A k \in i..(i + n - 1) : text[k] \in Digits
        /\ i > 1 => text[i - 1] \notin Digits
        /\ i + n <= Len(text) => text[i + n] \notin Digits}

\* Those among them that have no letter, digit or underscore on either side.
FreeStandingRuns(text) ==
    {r \in DigitRuns(text) :
        /\ r[1] > 1 => ~IsWordChar(text[r[1] - 1])
        /\ r[1] + r[2] <= Len(text) => ~IsWordChar(text[r[1] + r[2]])}

\* The leftmost run of a non-empty set of runs, as a string.
Leftmost(text, runs) ==
    LET r == CHOOSE x \in runs : \A y \in runs : x[1] <= y[1]
    IN  SubSeq(text, r[1], r[1] + r[2] - 1)

\* C9, as claimed: the code is the leftmost run of 4 to 8 digits with a
\* non-digit or the start/end of the text on both sides, and is absent
\* exactly when there is no such run; a run next to a letter or an underscore
\* counts.
C9_LeftmostDigitRun ==
    xout # NotRun =>
        IF DigitRuns(Scanned) = {} THEN Falsy(xout.code)
        ELSE xout.code = Leftmost(Scanned, DigitRuns(Scanned))

\* C9, amended: the code is the leftmost run of 4 to 8 digits that has, on
\* both sides, the start/end of the text or a character that is no ASCII
\* letter, no digit and no underscore, returned unchanged; it is absent
\* exactly when the text holds no such run, so a run directly next to a
\* letter or an underscore is not a code.
C9_LeftmostFreeStandingRun ==
    xout # NotRun =>
        IF FreeStandingRuns(Scanned) = {} THEN Falsy(xout.code)
        ELSE xout.code = Leftmost(Scanned, FreeStandingRuns(Scanned))

\* A code was returned from a text whose first run of digits, next to a
\* letter or an underscore, was passed over.
C9_Witness ==
    /\ xout # NotRun
    /\ ~Falsy(xout.code)
    /\ DigitRuns(Scanned) # FreeStandingRuns(Scanned)
    /\ Leftmost(Scanned, DigitRuns(Scanned)) # Leftmost(Scanned, FreeStandingRuns(Scanned))

-----------------------------------------------------------------------------
(* C10 *)

\* Whether a page holds no <, > or & of its own: every such character is
\* inside a piece of the template, or is the & that opens one of the
\* entities &amp; &lt; &gt;.
NoRawMarkup(body) ==
    \A i \in DOMAIN body :
        /\ body[i] \notin {"<", ">"}
        /\ body[i] = "&" =>
              \/ LitAt(body, i, <<"&","a","m","p",";">>)
              \/ LitAt(body, i, <<"&","l","t",";">>)
              \/ LitAt(body, i, <<"&","g","t",";">>)

\* C10: the page of a stored message that has no HTML body holds no unescaped
\* <, > or & that comes from the message.
C10_PlainTextEscaped ==
    \A id \in DOMAIN mailStorage :
        Falsy(mailStorage[id].html) => NoRawMarkup(view(id).body)

-----------------------------------------------------------------------------
(* C11 *)

\* The positions of the template pieces of a notification text.
Pieces(text) == {i \in DOMAIN text : Len(text[i]) > 1}

\* What is interpolated after the k-th template piece: the characters between
\* it and the next piece.
Field(text, k) ==
    LET nth(n) == CHOOSE i \in Pieces(text) :
                      Cardinality({j \in Pieces(text) : j < i}) = n - 1
    IN  SubSeq(text, nth(k) + 1, nth(k + 1) - 1)

\* The sender follows the first piece; the subject follows the third piece
\* in src/index.js (after the recipient) and the second in part_000.
SenderField == 1
SubjectField == IF variant = "index" THEN 3 ELSE 2

\* One character with &, < and > replaced by its entity.
Entity(c) ==
    CASE c = "&" -> <<"&","a","m","p",";">>
      [] c = "<" -> <<"&","l","t",";">>
      [] c = ">" -> <<"&","g","t",";">>
      [] OTHER   -> <<c>>

RECURSIVE Entities(_)
\* A string with each of its characters replaced so, once.
Entities(str) ==
    IF str = <<>> THEN <<>> ELSE Entity(Head(str)) \o Entities(Tail(str))

\* C11: in every notification text, the sender and the subject taken from the
\* message stand with each &, < and > replaced by its entity, once (the & of
\* an entity is not replaced again), so the two fields hold no < and no >
\* and every & in them opens an entity.
C11_NotificationEscaped ==
    \A tx \in Txs :
        sent[tx] # <<>> =>
            LET text == sent[tx][1].text
                parsed == parsedIn[tx].parsed
            IN  /\ ~Falsy(parsed.from) =>
                      Field(text, SenderField) = Entities(parsed.from)
                /\ ~Falsy(parsed.subject) =>
                      Field(text, SubjectField) = Entities(parsed.subject)
                /\ NoRawMarkup(Field(text, SenderField))
                /\ NoRawMarkup(Field(text, SubjectField))

\* A notification was sent for a mail with & in its sender and < in its
\* subject.
C11_Witness ==
    \E tx \in Txs :
        /\ sent[tx] # <<>>
        /\ "&" \in Range(parsedIn[tx].parsed.from)
        /\ "<" \in Range(parsedIn[tx].parsed.subject)
        /\ Field(sent[tx][1].text, SubjectField) # parsedIn[tx].parsed.subject

-----------------------------------------------------------------------------
(* C12 *)

\* The template pieces that open the detected-code section.
CodeOpeners ==
    {"\n\n<b>CODE DETECTE :</b>\n<code>", "\n\n<b>CODE DETECTE :</b> <code>"}

HasCodeSection(text) == \E i \in DOMAIN text : text[i] \in CodeOpeners

\* C12: smartExtract returns neither a code nor a link for an empty or absent
\* text; and a transaction whose mail was parsed with such a text has stored
\* it under an id of its own, with its expiry timer pending until it fires,
\* and has sent exactly one notification, with no code section and with the
\* view link as its only button.
C12_EmptyTextStillNotified ==
    /\ \A t \in {<<>>, undefined, null} :
          Falsy(smartExtract(t).code) /\ Falsy(smartExtract(t).link)
    /\ \A tx \in Txs :
          (parsedIn[tx].err = "none" /\ Falsy(parsedIn[tx].parsed.text)) =>
              /\ tx \in Stored
              /\ txId[tx] \in issued
              /\ \A other \in Txs \ {tx} : txId[other] # txId[tx]
              /\ IF txId[tx] \in fired
                 THEN TimersOf(txId[tx]) = {}
                 ELSE /\ txId[tx] \in DOMAIN mailStorage
                      /\ Cardinality(TimersOf(txId[tx])) = 1
              /\ Len(sent[tx]) = 1
              /\ ~HasCodeSection(sent[tx][1].text)
              /\ Len(sent[tx][1].inline_keyboard) = 1
              /\ sent[tx][1].inline_keyboard[1][1].url = viewUrl(txId[tx])

\* A mail without plain text was notified and is shown by the view, while
\* the notification of another mail has a code section.
C12_Witness ==
    \E tx \in Stored, other \in Stored :
        /\ Falsy(parsedIn[tx].parsed.text)
        /\ Len(sent[tx]) = 1
        /\ resp.id = txId[tx]
        /\ resp.status = 200
        /\ HasCodeSection(sent[other][1].text)

-----------------------------------------------------------------------------
(* C13 *)

\* part_000 has gone through the reading of the certificates and sslOptions
\* was not assigned: readFileSync threw.
CertificatesUnreadable ==
    /\ variant = "part000"
    /\ phase # "loading"
    /\ sslOptions = undefined

\* C13: when the key or the certificate cannot be read at startup, the
\* process has exited with a status other than 0 and nothing was started:
\* no bot, no web server, no SMTP server; no transaction has begun, nothing
\* is stored or scheduled, nothing was sent and no view was served.
C13_CertFailureExits ==
    CertificatesUnreadable =>
        /\ phase = "exited"
        /\ exitCode # NoExit
        /\ exitCode[1] # 0
        /\ started = {}
        /\ \A tx \in Txs : pc[tx] = "idle" /\ acks[tx] = <<>> /\ sent[tx] = <<>>
        /\ DOMAIN mailStorage = {}
        /\ timers = {}
        /\ resp = NoResp

\* The certificates could not be read and the process has exited.
C13_Witness ==
    /\ CertificatesUnreadable
    /\ phase = "exited"
    /\ exitCode = <<1>>

-----------------------------------------------------------------------------
(* C14 *)

\* C14: a step in which an exception escapes a handler leaves the process
\* running with every component it had started, and leaves the store and
\* the pending timers as they were, so that later messages and view
\* requests are still accepted.
C14_ExceptionSurvived ==
    [][escaped' # escaped =>
          /\ phase' = "running"
          /\ exitCode' = NoExit
          /\ started' = started
          /\ mailStorage' = mailStorage
          /\ timers' = timers]_vars

-----------------------------------------------------------------------------
(* C15 *)

\* The fixed answer of the running script for an id it does not hold.
NotFoundPage == IF variant = "index" THEN notFound_index ELSE notFound_part000

-----------------------------------------------------------------------------
(* C16 *)

\* C16: in every step, for every id: an entry that stays keeps its snapshot
\* and its timer; an entry that appears is under an id never issued before
\* and comes with one timer, due 15 minutes later; an entry that disappears
\* does so with its own timer firing, when that timer is due, and that
\* timer is the one scheduled at the insertion.
C16_InsertOnceDeleteOnce ==
    [][\A id \in UuidPool :
          /\ (id \in DOMAIN mailStorage /\ id \in DOMAIN mailStorage') =>
                /\ mailStorage'[id] = mailStorage[id]
                /\ {t \in timers' : t.id = id} = TimersOf(id)
          /\ (id \notin DOMAIN mailStorage /\ id \in DOMAIN mailStorage') =>
                /\ id \notin issued
                /\ id \notin fired
                /\ {t.due : t \in {u \in timers' : u.id = id}} = {now + QuarterHour}
          /\ (id \in DOMAIN mailStorage /\ id \notin DOMAIN mailStorage') =>
                /\ fired' = fired \cup {id}
                /\ id \notin fired
                /\ \E t \in timers :
                      /\ t.id = id
                      /\ timers' = timers \ {t}
                      /\ now >= t.due
                      /\ t.due = putLog[t.tx].at + QuarterHour]_vars

\* One entry was inserted, shown and removed by its timer while another,
\* inserted at another time, is still in the store.
C16_Witness ==
    \E tx \in Stored, other \in Stored :
        /\ txId[tx] \in fired
        /\ txId[other] \in DOMAIN mailStorage
        /\ putLog[tx].at # putLog[other].at
        /\ pc[tx] = "done"
        /\ pc[other] = "done"

-----------------------------------------------------------------------------
(* C17 *)

\* The code shown in a notification text: what follows the opener of the
\* code section, which follows the subject.
CodeField == SubjectField + 1

\* C17: whatever the order of the steps, two stored messages have different
\* ids, and each entry stays in the store, with the snapshot of its own
\* mail, until its own expiry callback has run; the step that submits the
\* notification of a message submits its first and only one, with the view
\* link of its own id and of no other, and with the code and the link
\* extracted from its own text.
C17_IntakesIndependent ==
    /\ [](\A tx \in Stored :
            /\ \A other \in Stored \ {tx} : txId[tx] # txId[other]
            /\ Len(sent[tx]) = 1
            /\ txId[tx] \notin fired =>
                  /\ txId[tx] \in DOMAIN mailStorage
                  /\ mailStorage[txId[tx]] = storedMail(parsedIn[tx].parsed))
    /\ [][\A tx \in Txs :
             sent'[tx] # sent[tx] =>
                 /\ sent[tx] = <<>>
                 /\ \E call \in {sent'[tx][1]} :
                    \E own \in {smartExtract(parsedIn'[tx].parsed.text)} :
                    \E urls \in {{b.url : b \in Buttons(call)}} :
                        /\ viewUrl(txId'[tx]) \in urls
                        /\ \A id \in UuidPool \ {txId'[tx]} : viewUrl(id) \notin urls
                        /\ IF Falsy(own.link)
                           THEN urls = {viewUrl(txId'[tx])}
                           ELSE urls = {viewUrl(txId'[tx]), own.link}
                        /\ IF Falsy(own.code)
                           THEN ~HasCodeSection(call.text)
                           ELSE /\ HasCodeSection(call.text)
                                /\ Field(call.text, CodeField) = own.code]_vars

\* One intake is still waiting for its notification to settle and its entry
\* has expired, while a later intake of another mail has finished and its
\* entry is still in the store.
C17_Witness ==
    \E tx \in Stored, other \in Stored :
        /\ parsedIn[tx].parsed # parsedIn[other].parsed
        /\ putLog[other].at > putLog[tx].at
        /\ pc[tx] = "sending"
        /\ pc[other] = "done"
        /\ txId[tx] \in fired
        /\ txId[other] \in DOMAIN mailStorage

-----------------------------------------------------------------------------
(* C18 *)

\* C18: for a parsed mail without a subject, the stored subject is the
\* placeholder and the subject shown in the notification is the same
\* placeholder.
C18_SubjectPlaceholder ==
    \A tx \in Stored :
        Falsy(parsedIn[tx].parsed.subject) =>
            /\ putLog[tx].mail.subject = SansSujet
            /\ Field(sent[tx][1].text, SubjectField) = putLog[tx].mail.subject

-----------------------------------------------------------------------------
(* C19 *)

\* A transaction's callback has been called.
Acked(tx) == acks[tx] # <<>>

\* At no time: a second call, a call with an error, a call while parsing or
\* while the notification is pending, a call before the snapshot is stored;
\* and the call is there once the parse has failed or sendMessage settled.
AckedOnceInOrder ==
    \A tx \in Txs :
        /\ acks[tx] \in {<<>>, <<"callback()">>}
        /\ Acked(tx) <=> pc[tx] = "done"
        /\ parsedIn[tx].err = "error" => Acked(tx)
        /\ sendResult[tx] # "pending" => Acked(tx)
        /\ (Acked(tx) /\ parsedIn[tx].err # "error") =>
              /\ parsedIn[tx].err = "none"
              /\ tx \in Stored
              /\ Len(sent[tx]) = 1
              /\ sendResult[tx] \in {"resolved", "rejected"}

\* No transaction is between the start of its parse and its callback().
NoneInFlight == \A tx \in Txs : pc[tx] \in {"idle", "done"}

\* C19: every onData invocation calls callback() exactly once: in the step
\* in which the parse fails, or else in the step in which sendMessage
\* settles, after the snapshot was stored; and, when every parse and every
\* sendMessage call settles, there comes a moment from which on every
\* transaction that has begun is acknowledged, as long as the process runs.
C19_AckExactlyOnce ==
    /\ []AckedOnceInOrder
    /\ <>[](NoneInFlight \/ ~Running)

\* Both transactions are acknowledged, one after a parse failure and one
\* after a notification that failed.
C19_Witness ==
    \E tx \in Txs, other \in Txs :
        /\ acks[tx] = <<"callback()">>
        /\ parsedIn[tx].err = "error"
        /\ acks[other] = <<"callback()">>
        /\ sendResult[other] = "rejected"

-----------------------------------------------------------------------------
(* C20 *)

\* The ids some notification submitted so far links to.
LinkedIds ==
    {id \in UuidPool :
        \E tx \in Txs : \E k \in DOMAIN sent[tx] :
            viewUrl(id) \in {b.url : b \in Buttons(sent[tx][k])}}

\* C20: in the step that submits a notification, the store holds the entry
\* the view link refers to, and the timer of that entry is pending; and at
\* every moment the ids that notifications link to were inserted in the
\* store: they are in it or their expiry callback has run.
C20_StoredBeforeNotified ==
    /\ [][\A tx \in Txs :
             sent'[tx] # sent[tx] =>
                 LET call == sent'[tx][Len(sent'[tx])]
                     id == txId'[tx]
                 IN  /\ viewUrl(id) \in {b.url : b \in Buttons(call)}
                     /\ id \in DOMAIN mailStorage'
                     /\ mailStorage'[id] = storedMail(parsedIn'[tx].parsed)
                     /\ \E t \in timers' : t.id = id /\ t.due = now + QuarterHour]_vars
    /\ [](LinkedIds \subseteq (DOMAIN mailStorage \cup fired))

\* The mail of a notification that has not settled yet was served by the
\* view under the id of its link.
C20_Witness ==
    \E tx \in Txs :
        /\ pc[tx] = "sending"
        /\ txId[tx] \in LinkedIds
        /\ resp.id = txId[tx]
        /\ resp.status = 200

=============================================================================
